---- MODULE Spec2Model ----
(***************************************************************************)
(* Host-function marshalling layer of the extism Python SDK                *)
(* (src/extism/extism.py): the host_fn registry, signature inference, the  *)
(* type-inferred trampoline, the shared cffi entry point handle_args and   *)
(* the guest-memory facade CurrentPlugin.                                   *)
(***************************************************************************)
EXTENDS Integers, Sequences, FiniteSets, TLC

VARIABLES HOST_FN_REGISTRY, lists, decorators, reg, call, pcall, objs, pool

vars == <<HOST_FN_REGISTRY, lists, decorators, reg, call, pcall, objs, pool>>

(* ------------------------------ bounds -------------------------------- *)
\* registrations attempted through host_fn decorators (SpecReg)
MaxAttempts == 3
\* registrations attempted before the calls of Spec
MaxCallAttempts == 2
\* decorators created by host_fn(...) calls
MaxDecorators == 2
\* CompiledPlugin objects, and Plugin objects, constructed (SpecLife)
MaxObjects == 2
\* __del__ runs on one object: an explicit call, a context exit, collection
MaxDels == 2
\* callers of Pool.get / Pool.async_get: threads, or coroutines of one loop
MaxCallers == 3
\* the largest max_instances a Pool is created with
MaxInstances == 1

(* ------------------------------ ValType ------------------------------- *)
I32 == 0
I64 == 1
F32 == 2
F64 == 3

(* --------------------------- sequence helpers ------------------------- *)
Last(s) == s[Len(s)]
Front(s) == SubSeq(s, 1, Len(s) - 1)

\* int.to_bytes(length=4, byteorder="big")
ToBytes4(n) ==
  << (n \div 16777216) % 256, (n \div 65536) % 256, (n \div 256) % 256, n % 256 >>

\* int.from_bytes(b, byteorder="big")
RECURSIVE FromBytes(_)
FromBytes(b) ==
  IF b = <<>> THEN 0 ELSE FromBytes(Front(b)) * 256 + Last(b)

(* ------------------------- declared Python types ---------------------- *)
\* a type annotation: k is the annotation, args the members of a typing.Tuple
T(k) == [k |-> k, args |-> <<>>]
Tup(a) == [k |-> "Tuple", args |-> a]
\* no annotation at all
Absent == T("absent")

\* _map_arg with a fallback: an annotation with no mapping is taken as bytes
_map_arg_fallback(xs) ==
  IF xs.k \in {"str", "int", "float", "bool", "Json", "Pickle", "Codec"}
  THEN [err |-> FALSE, t |-> IF xs.k = "float" THEN F64 ELSE IF xs.k = "bool" THEN I32 ELSE I64,
        ex |-> xs.k]
  ELSE [err |-> FALSE, t |-> I64, ex |-> "bytes"]

\* _map_arg: the wire type and the decoder of a parameter annotation
_map_arg(xs) ==
  CASE xs.k = "str"    -> [err |-> FALSE, t |-> I64, ex |-> "str"]
    [] xs.k = "bytes"  -> [err |-> FALSE, t |-> I64, ex |-> "bytes"]
    [] xs.k = "int"    -> [err |-> FALSE, t |-> I64, ex |-> "int"]
    [] xs.k = "float"  -> [err |-> FALSE, t |-> F64, ex |-> "float"]
    [] xs.k = "bool"   -> [err |-> FALSE, t |-> I32, ex |-> "bool"]
    [] xs.k = "Json"   -> [err |-> FALSE, t |-> I64, ex |-> "Json"]
    [] xs.k = "Pickle" -> [err |-> FALSE, t |-> I64, ex |-> "Pickle"]
    [] xs.k = "Codec"  -> [err |-> FALSE, t |-> I64, ex |-> "Codec"]
    [] OTHER           -> [err |-> TRUE, t |-> I64, ex |-> "TypeError"]

\* _map_ret: the wire types and encoders of a return annotation; a Tuple is
\* flattened member by member (functools.reduce over get_args)
RECURSIVE _map_ret(_)
RECURSIVE MapRetMembers(_, _)
_map_ret(xs) ==
  CASE xs.k = "str"    -> [err |-> FALSE, slots |-> << [t |-> I64, em |-> "str"] >>]
    [] xs.k = "bytes"  -> [err |-> FALSE, slots |-> << [t |-> I64, em |-> "bytes"] >>]
    [] xs.k = "int"    -> [err |-> FALSE, slots |-> << [t |-> I64, em |-> "int"] >>]
    [] xs.k = "float"  -> [err |-> FALSE, slots |-> << [t |-> F64, em |-> "float"] >>]
    [] xs.k = "bool"   -> [err |-> FALSE, slots |-> << [t |-> I32, em |-> "bool"] >>]
    [] xs.k = "Tuple"  -> MapRetMembers(xs.args, [err |-> FALSE, slots |-> <<>>])
    [] xs.k = "Json"   -> [err |-> FALSE, slots |-> << [t |-> I64, em |-> "Json"] >>]
    [] xs.k = "Pickle" -> [err |-> FALSE, slots |-> << [t |-> I64, em |-> "Pickle"] >>]
    [] xs.k = "Codec"  -> [err |-> FALSE, slots |-> << [t |-> I64, em |-> "Codec"] >>]
    [] OTHER           -> [err |-> TRUE, slots |-> <<>>]

\* a Tuple return annotation taken as one slot
MapRetMembersOneSlot(members, lhs) ==
  [err |-> FALSE, slots |-> << [t |-> I64, em |-> "bytes"] >>]

MapRetMembers(members, lhs) ==
  IF members = <<>> \/ lhs.err THEN lhs
  ELSE LET rhs == _map_ret(Head(members))
       IN  MapRetMembers(Tail(members),
             [err |-> rhs.err, slots |-> lhs.slots \o rhs.slots])

(* ---------------------------- Function objects ------------------------ *)
\* Function.__init__: *user_data is the tuple of the bound values; an empty
\* tuple is stored as _ffi.NULL
Function(name, args, returns, user_data, inferred, ucp, extract, emplace, body) ==
  [ name |-> name, args |-> args, returns |-> returns,
    user_data |-> user_data,
    inferred |-> inferred, uses_current_plugin |-> ucp,
    extract |-> extract, emplace |-> emplace, func |-> body ]

\* ExplicitFunction.__init__: the user's function is the trampoline itself
ExplicitFunction(name, args, returns, func, user_data) ==
  [ err |-> FALSE,
    fn  |-> Function(name, args, returns, user_data, FALSE, FALSE, <<>>, <<>>,
                     func.body) ]

\* TypeInferredFunction.__init__: signature inference from the type hints
TypeInferredFunction(name, func, user_data) ==
  LET no_hints == func.params = <<>> /\ func.ret = Absent
      ucp      == Len(func.params) > 0 /\ func.params[1].k = "CurrentPlugin"
      arg_ts   == IF ucp THEN Tail(func.params) ELSE func.params
      dummy    == Function(name, <<>>, <<>>, <<>>, TRUE, FALSE, <<>>, <<>>, func.body)
      build(args, returns) ==
        IF no_hints \/ (\E i \in 1..Len(args) : args[i].err) \/ returns.err
        THEN [err |-> TRUE, fn |-> dummy]
        ELSE [err |-> FALSE,
              fn  |-> Function(name,
                        [i \in 1..Len(args) |-> args[i].t],
                        [i \in 1..Len(returns.slots) |-> returns.slots[i].t],
                        user_data, TRUE, ucp,
                        [i \in 1..Len(args) |-> args[i].ex],
                        [i \in 1..Len(returns.slots) |-> returns.slots[i].em],
                        func.body)]
  IN  build([i \in 1..Len(arg_ts) |-> _map_arg(arg_ts[i])],
            IF func.ret = Absent THEN [err |-> FALSE, slots |-> <<>>]
            ELSE _map_ret(func.ret))

(* ------------------------------ host values --------------------------- *)
\* a Python value: k is its type, n its number, b its code points or bytes,
\* t its members when it is a tuple
HV(k, n, b, t) == [k |-> k, n |-> n, b |-> b, t |-> t]
IntV(n) == HV("int", n, <<>>, <<>>)
FloatV(n) == HV("float", n, <<>>, <<>>)
StrV(s) == HV("str", 0, s, <<>>)
BytesV(b) == HV("bytes", 0, b, <<>>)
TupleV(t) == HV("tuple", 0, <<>>, t)
NoneV == HV("NoneV", 0, <<>>, <<>>)
PluginV == HV("CurrentPlugin", 0, <<>>, <<>>)

Ok(v) == [err |-> FALSE, value |-> v]
Raise == [err |-> TRUE, value |-> NoneV]

RECURSIVE Concat(_)
Concat(ss) == IF ss = <<>> THEN <<>> ELSE Head(ss) \o Concat(Tail(ss))

(* ------------------------- str.encode / bytes.decode ------------------ *)
Utf8Char(cp) ==
  IF cp < 128 THEN << cp >>
  ELSE IF cp < 2048 THEN << 192 + (cp \div 64), 128 + (cp % 64) >>
  ELSE IF cp < 65536
       THEN << 224 + (cp \div 4096), 128 + ((cp \div 64) % 64), 128 + (cp % 64) >>
  ELSE << 240 + (cp \div 262144), 128 + ((cp \div 4096) % 64),
          128 + ((cp \div 64) % 64), 128 + (cp % 64) >>

\* an encoding that writes each code point as one byte
Utf8EncodeOneByte(s) == s

\* str.encode(): UTF-8
Utf8Encode(s) == Concat([i \in 1..Len(s) |-> Utf8Char(s[i])])

IsCont(x) == x >= 128 /\ x <= 191

\* bytes.decode(): strict UTF-8; err when the bytes are not valid UTF-8
RECURSIVE Utf8Decode(_)
Utf8Decode(b) ==
  IF b = <<>> THEN [err |-> FALSE, s |-> <<>>]
  ELSE
    LET b1 == b[1]
        n  == IF b1 < 128 THEN 1
              ELSE IF b1 >= 194 /\ b1 <= 223 THEN 2
              ELSE IF b1 >= 224 /\ b1 <= 239 THEN 3
              ELSE IF b1 >= 240 /\ b1 <= 244 THEN 4
              ELSE 0
        ok == n > 0 /\ Len(b) >= n /\ \A j \in 2..n : IsCont(b[j])
        cp == CASE n = 1 -> b1
                [] n = 2 -> (b1 - 192) * 64 + (b[2] - 128)
                [] n = 3 -> (b1 - 224) * 4096 + (b[2] - 128) * 64 + (b[3] - 128)
                [] OTHER -> (b1 - 240) * 262144 + (b[2] - 128) * 4096
                            + (b[3] - 128) * 64 + (b[4] - 128)
        legal == CASE n = 3 -> cp >= 2048 /\ ~(cp >= 55296 /\ cp <= 57343)
                   [] n = 4 -> cp >= 65536 /\ cp <= 1114111
                   [] OTHER -> TRUE
    IN  IF ~ok THEN [err |-> TRUE, s |-> <<>>]
        ELSE IF ~legal THEN [err |-> TRUE, s |-> <<>>]
        ELSE LET rest == Utf8Decode(SubSeq(b, n + 1, Len(b)))
             IN  [err |-> rest.err, s |-> << cp >> \o rest.s]

(* ------------------------------ json ---------------------------------- *)
IsDigit(c) == c >= 48 /\ c <= 57

RECURSIVE Digits(_)
Digits(n) == IF n < 10 THEN << 48 + n >> ELSE Digits(n \div 10) \o << 48 + (n % 10) >>

RECURSIVE DigitsValue(_)
DigitsValue(s) ==
  IF s = <<>> THEN 0 ELSE DigitsValue(Front(s)) * 10 + (Last(s) - 48)

\* a character json.dumps writes as itself inside a string
JsonPlain(c) == c >= 32 /\ c < 127 /\ c # 34 /\ c # 92

\* json.dumps over numbers, NoneV, plain ASCII text and tuples of them;
\* bytes and other objects are not JSON serializable (TypeError)
RECURSIVE JsonDumps(_)
JsonDumps(v) ==
  CASE v.k = "int" /\ v.n >= 0 -> [err |-> FALSE, s |-> Digits(v.n)]
    [] v.k = "int" /\ v.n < 0  -> [err |-> FALSE, s |-> << 45 >> \o Digits(0 - v.n)]
    [] v.k = "NoneV" -> [err |-> FALSE, s |-> << 110, 117, 108, 108 >>]
    [] v.k = "str" /\ (\A i \in 1..Len(v.b) : JsonPlain(v.b[i])) ->
         [err |-> FALSE, s |-> << 34 >> \o v.b \o << 34 >>]
    [] v.k = "tuple" ->
         LET parts == [i \in 1..Len(v.t) |-> JsonDumps(v.t[i])]
             items == [i \in 1..Len(v.t) |->
                         IF i = 1 THEN parts[i].s ELSE << 44, 32 >> \o parts[i].s]
         IN  [err |-> \E i \in 1..Len(v.t) : parts[i].err,
              s   |-> << 91 >> \o Concat(items) \o << 93 >>]
    [] OTHER -> [err |-> TRUE, s |-> <<>>]

\* json.loads over the scalar documents: a number, null, or a plain string;
\* anything else met in the modelled guest memory is malformed
JsonLoads(s) ==
  CASE s # <<>> /\ (\A i \in 1..Len(s) : IsDigit(s[i])) /\ (Len(s) = 1 \/ s[1] # 48) ->
         Ok(IntV(DigitsValue(s)))
    [] s = << 110, 117, 108, 108 >> -> Ok(NoneV)
    [] Len(s) >= 2 /\ s[1] = 34 /\ Last(s) = 34
       /\ (\A i \in 2..(Len(s) - 1) : JsonPlain(s[i])) ->
         Ok(StrV(SubSeq(s, 2, Len(s) - 1)))
    [] OTHER -> Raise

(* ------------------------------ pickle -------------------------------- *)
\* pickle.dumps: PROTO, the value's opcodes, STOP
PickleBody(v) ==
  CASE v.k = "int" /\ v.n >= 0 /\ v.n < 256 -> [err |-> FALSE, b |-> << 75, v.n >>]
    [] v.k = "NoneV"  -> [err |-> FALSE, b |-> << 78 >>]
    [] v.k = "str"   -> [err |-> FALSE,
                         b |-> << 140, Len(Utf8Encode(v.b)) >> \o Utf8Encode(v.b)]
    [] v.k = "bytes" -> [err |-> FALSE, b |-> << 67, Len(v.b) >> \o v.b]
    [] OTHER -> [err |-> TRUE, b |-> <<>>]

PickleDumps(v) ==
  IF v.k = "tuple" /\ Len(v.t) \in 1..3
  THEN LET parts == [i \in 1..Len(v.t) |-> PickleBody(v.t[i])]
       IN  [err |-> \E i \in 1..Len(v.t) : parts[i].err,
            b   |-> << 128, 4 >> \o Concat([i \in 1..Len(v.t) |-> parts[i].b])
                    \o << 132 + Len(v.t), 46 >>]
  ELSE LET body == PickleBody(v)
       IN  [err |-> body.err, b |-> << 128, 4 >> \o body.b \o << 46 >>]

\* pickle.loads of a scalar pickle; anything else met in the modelled guest
\* memory (empty or truncated data, no STOP) raises
PickleLoads(b) ==
  IF Len(b) < 4 \/ b[1] # 128 \/ b[2] # 4 \/ Last(b) # 46 THEN Raise
  ELSE LET body == SubSeq(b, 3, Len(b) - 1)
       IN  CASE body = << 78 >> -> Ok(NoneV)
             [] Len(body) = 2 /\ body[1] = 75 -> Ok(IntV(body[2]))
             [] Len(body) >= 2 /\ body[1] = 67 /\ body[2] = Len(body) - 2 ->
                  Ok(BytesV(SubSeq(body, 3, Len(body))))
             [] Len(body) >= 2 /\ body[1] = 140 /\ body[2] = Len(body) - 2 ->
                  LET d == Utf8Decode(SubSeq(body, 3, Len(body)))
                  IN  IF d.err THEN Raise ELSE Ok(StrV(d.s))
             [] OTHER -> Raise

(* ---------------------------- user codecs ----------------------------- *)
\* the codec of a parameter annotation, as in the tests: bytes to text
CodecIn(b) == LET d == Utf8Decode(b) IN IF d.err THEN Raise ELSE Ok(StrV(d.s))

\* the codec of a return annotation, as in the tests: text to bytes
CodecOut(v) == IF v.k = "str" THEN Ok(BytesV(Utf8Encode(v.b))) ELSE Raise

(* ------------------------- wire values and Val ------------------------- *)
\* ExtismVal: the native tagged value of a slot
Native(t, v) == [t |-> t, v |-> v]

\* Val.__init__
Val(t, v) == [t |-> t, value |-> v]

\* _convert_value: native slot to Val; the fourth branch reads the field y,
\* which ExtismVal does not have, so every type but I32, I64, F32 raises
_convert_value(x) ==
  CASE x.t = 0 -> [err |-> FALSE, val |-> Val(I32, IntV(x.v))]
    [] x.t = 1 -> [err |-> FALSE, val |-> Val(I64, IntV(x.v))]
    [] x.t = 2 -> [err |-> FALSE, val |-> Val(F32, FloatV(x.v))]
    [] OTHER   -> [err |-> TRUE, val |-> Val(x.t, NoneV)]

\* int(v): numbers, and text or bytes made of decimal digits
IntOf(v) ==
  CASE v.k \in {"int", "float"} -> [err |-> FALSE, n |-> v.n]
    [] v.k \in {"str", "bytes"} /\ v.b # <<>> /\ (\A i \in 1..Len(v.b) : IsDigit(v.b[i])) ->
         [err |-> FALSE, n |-> DigitsValue(v.b)]
    [] OTHER -> [err |-> TRUE, n |-> 0]

\* _convert_output: Val back into the native slot. x.t is the native integer
\* tag, so the comparisons with ValType.F32 and ValType.F64 are never true.
\* (The numbers of the model stay far inside the 32 and 64 bit ranges.)
_convert_output(x, v) ==
  IF v.t # x.t THEN [err |-> TRUE, x |-> x]
  ELSE LET i == IntOf(v.value)
       IN  IF v.t \in {I32, I64} /\ ~i.err
           THEN [err |-> FALSE, x |-> Native(x.t, i.n)]
           ELSE [err |-> TRUE, x |-> x]

(* --------------------------- CurrentPlugin ----------------------------- *)
\* guest memory: the live blocks, block i at offset i; any other offset is
\* outside every block
MemoryLength(mem, offs) == IF offs \in 1..Len(mem) THEN Len(mem[offs]) ELSE 0

\* CurrentPlugin.memory_at_offset: the engine reports length 0 for an offset
\* outside every block, and no check follows
memory_at_offset(mem, offs) == [offset |-> offs, length |-> MemoryLength(mem, offs)]

\* CurrentPlugin.input_bytes: input_buffer(input)[:]
input_bytes(mem, slot) ==
  IF slot.value.k # "int" THEN Raise
  ELSE LET m == memory_at_offset(mem, slot.value.n)
       IN  IF m.length = 0 THEN Ok(BytesV(<<>>))
           ELSE Ok(BytesV(SubSeq(mem[m.offset], 1, m.length)))

\* CurrentPlugin.input_string: input_bytes(input).decode()
input_string(mem, slot) ==
  LET text(d)   == IF d.err THEN Raise ELSE Ok(StrV(d.s))
      decode(b) == IF b.err THEN Raise ELSE text(Utf8Decode(b.value.b))
  IN  decode(input_bytes(mem, slot))

\* the state an encoder works on: the output Vals, guest memory, the number
\* of alloc calls, and whether an exception has been raised
Enc(outp, mem, allocs, err) ==
  [outp |-> outp, mem |-> mem, allocs |-> allocs, err |-> err]

\* CurrentPlugin.alloc: a new block of size bytes
alloc(st, size) ==
  [st EXCEPT !.mem = Append(st.mem, [j \in 1..size |-> 0]),
             !.allocs = st.allocs + 1]

\* CurrentPlugin.return_bytes: len(b), alloc, copy into the buffer, store the
\* offset in the output Val
return_bytes(st, i, b) ==
  IF b.k \notin {"bytes", "str", "tuple"} THEN [st EXCEPT !.err = TRUE]
  ELSE LET copy(a, offs) ==
             IF b.k # "bytes" THEN [a EXCEPT !.err = TRUE]
             ELSE [a EXCEPT !.mem[offs] = b.b,
                            !.outp[i] = Val(st.outp[i].t, IntV(offs))]
       IN  copy(alloc(st, IF b.k = "tuple" THEN Len(b.t) ELSE Len(b.b)),
                Len(st.mem) + 1)

\* CurrentPlugin.return_string: return_bytes(output, s.encode())
return_string(st, i, s) ==
  IF s.k # "str" THEN [st EXCEPT !.err = TRUE]
  ELSE return_bytes(st, i, BytesV(Utf8Encode(s.b)))

\* the encoder calling Val._assign: the value is stored in the output Val
SlotAssignStores(st, i, value) == [st EXCEPT !.outp[i] = Val(st.outp[i].t, value)]

\* slot.assign(value) of the int, float and bool encoders: Val defines
\* _assign and no assign, so the attribute lookup raises
SlotAssign(st, i, value) == [st EXCEPT !.err = TRUE]

(* ------------------------ decoders and encoders ------------------------ *)
\* the decoder lambdas of _map_arg
Extract(ex, mem, slot) ==
  LET json(s)   == IF s.err THEN Raise ELSE JsonLoads(s.value.b)
      pickle(b) == IF b.err THEN Raise ELSE PickleLoads(b.value.b)
      codec(b)  == IF b.err THEN Raise ELSE CodecIn(b.value.b)
  IN  CASE ex = "str"    -> input_string(mem, slot)
        [] ex = "bytes"  -> input_bytes(mem, slot)
        [] ex \in {"int", "float", "bool"} -> Ok(slot.value)
        [] ex = "Json"   -> json(input_string(mem, slot))
        [] ex = "Pickle" -> pickle(input_bytes(mem, slot))
        [] ex = "Codec"  -> codec(input_bytes(mem, slot))
        [] OTHER -> Raise

\* the encoder lambdas of _map_ret
Emplace(em, st, i, value) ==
  LET json(s)   == IF s.err THEN [st EXCEPT !.err = TRUE]
                   ELSE return_string(st, i, StrV(s.s))
      pickle(b) == IF b.err THEN [st EXCEPT !.err = TRUE]
                   ELSE return_bytes(st, i, BytesV(b.b))
      codec(b)  == IF b.err THEN [st EXCEPT !.err = TRUE]
                   ELSE return_bytes(st, i, b.value)
  IN  CASE em = "str"    -> return_string(st, i, value)
        [] em = "bytes"  -> return_bytes(st, i, value)
        [] em \in {"int", "float", "bool"} -> SlotAssign(st, i, value)
        [] em = "Json"   -> json(JsonDumps(value))
        [] em = "Pickle" -> pickle(PickleDumps(value))
        [] em = "Codec"  -> codec(CodecOut(value))
        [] OTHER -> [st EXCEPT !.err = TRUE]

(* --------------------------- user functions ---------------------------- *)
\* a Python function handed to a host_fn decorator: its annotated parameter
\* types, its return annotation, and its body
Def(params, ret, body) == [params |-> params, ret |-> ret, body |-> body]

\* the value a body returns when called with args; err when it raises
\* (TypeError for a wrong number of arguments included)
HostBody(body, args) ==
  CASE body = "sum" ->    \* def sum(a: int, b: int) -> int: return a + b
         IF Len(args) = 2 /\ args[1].k = "int" /\ args[2].k = "int"
         THEN Ok(IntV(args[1].n + args[2].n)) ELSE Raise
    [] body = "greet" ->  \* def greet(who: str, *user_data) -> str: return "h" + who
         IF Len(args) >= 1 /\ args[1].k = "str"
         THEN Ok(StrV(<< 104 >> \o args[1].b)) ELSE Raise
    [] body = "ctx_greet" -> \* def f(p: CurrentPlugin, who: str, *user_data) -> str
         IF Len(args) >= 2 /\ args[1].k = "CurrentPlugin" /\ args[2].k = "str"
         THEN Ok(StrV(<< 104 >> \o args[2].b)) ELSE Raise
    [] body = "secret" -> \* def secret(*user_data) -> bytes: return user_data[0]
         IF Len(args) >= 1 THEN Ok(args[1]) ELSE Raise
    [] body = "ident" ->  \* def ident(x, *user_data): return x
         IF Len(args) >= 1 THEN Ok(args[1]) ELSE Raise
    [] body = "pair" ->   \* def pair(*user_data): return (5, "a")
         Ok(TupleV(<< IntV(5), StrV(<< 97 >>) >>))
    [] body = "one" ->    \* def one(*user_data): return (5,)
         Ok(TupleV(<< IntV(5) >>))
    [] body = "text" ->   \* def text(*user_data): return "7"
         Ok(StrV(<< 55 >>))
    [] body = "nums" ->   \* def nums(*user_data): return (1, 2)
         Ok(TupleV(<< IntV(1), IntV(2) >>))
    [] body = "empty_text" ->  \* def empty_text(*user_data): return ""
         Ok(StrV(<<>>))
    [] body = "empty_bytes" -> \* def empty_bytes(*user_data): return b""
         Ok(BytesV(<<>>))
    [] body = "accent" ->      \* def accent(*user_data): return "\u00e9"
         Ok(StrV(<< 233 >>))
    [] OTHER -> Raise     \* def boom(...): raise

\* the bodies written against the explicit wire signature
\* (plugin, params, results, *user_data); they store into the output Vals
ExplicitBody(body, st, inp, udata) ==
  CASE body = "hello_world" ->
         \* def hello_world(plugin, params, results, user_data):
         \*   offs = plugin.alloc(len(user_data)); plugin.memory(offs)[:] = user_data
         \*   results[0].value = offs.offset
         IF Len(udata) # 1 THEN [st EXCEPT !.err = TRUE]
         ELSE LET store(a, offs) ==
                    IF Len(st.outp) = 0 THEN [a EXCEPT !.mem[offs] = udata[1].b, !.err = TRUE]
                    ELSE [a EXCEPT !.mem[offs] = udata[1].b,
                                   !.outp[1] = Val(st.outp[1].t, IntV(offs))]
              IN  store(alloc(st, Len(udata[1].b)), Len(st.mem) + 1)
    [] body = "set_all" ->
         \* def set_all(plugin, params, results, *user_data):
         \*   for i, r in enumerate(results): r.value = 10 + i
         [st EXCEPT !.outp = [i \in 1..Len(st.outp) |-> Val(st.outp[i].t, IntV(9 + i))]]
    [] OTHER -> [st EXCEPT !.err = TRUE]

(* ------------------------------ trampoline ----------------------------- *)
\* what one boundary invocation did
\* stage: where the exception was raised, or "ok"; dispatched: the registry
\* position (from 1) of the trampoline that ran, 0 for none; invoked: the
\* user's function was called; host_args: what it was called with, payload
\* being its trailing *user_data; result: what it returned
Outcome(stage, dispatched, invoked, host_args, payload, result, st) ==
  [ stage |-> stage, dispatched |-> dispatched, invoked |-> invoked,
    host_args |-> host_args, payload |-> payload, result |-> result,
    outp |-> st.outp, mem |-> st.mem, allocs |-> st.allocs ]

Min(a, b) == IF a < b THEN a ELSE b

\* for (_, emplace), slot in zip(returns, outputs): emplace(plugin, slot, result)
RECURSIVE EmplaceAll(_, _, _, _)
EmplaceAll(emplace, st, i, result) ==
  IF i > Min(Len(emplace), Len(st.outp)) \/ st.err THEN st
  ELSE EmplaceAll(emplace, Emplace(emplace[i], st, i, result), i + 1, result)

\* TypeInferredFunction.__init__.inner_func
inner_func(fn, k, inp, outp, user_data, mem) ==
  LET n     == Min(Len(fn.extract), Len(inp))
      first == IF fn.uses_current_plugin THEN << PluginV >> ELSE <<>>
      st0   == Enc(outp, mem, 0, FALSE)
      \* for (emplace, slot) in zip(...): emplace(plugin, slot, result)
      encoded(args, result, st1) ==
        Outcome(IF st1.err THEN "encode" ELSE "ok", k, TRUE, args, user_data, result, st1)
      \* result = func(*inner_args)
      called(args, res) ==
        IF res.err THEN Outcome("host", k, TRUE, args, user_data, NoneV, st0)
        ELSE encoded(args, res.value, EmplaceAll(fn.emplace, st0, 1, res.value))
      call_func(args) == called(args, HostBody(fn.func, args))
      \* inner_args = first_arg + [extract(plugin, slot) ...] + list(user_data)
      extracted(decoded) ==
        IF \E i \in 1..n : decoded[i].err
        THEN Outcome("decode", k, FALSE, <<>>, <<>>, NoneV, st0)
        ELSE call_func(first \o [i \in 1..n |-> decoded[i].value]
                             \o [i \in 1..Len(user_data) |-> BytesV(user_data[i])])
  IN  extracted([i \in 1..n |-> Extract(fn.extract[i], mem, inp[i])])

\* ExplicitFunction.__call__: self.func(plugin, inputs, outputs, *user_data)
explicit_call(fn, k, inp, outp, user_data, mem) ==
  LET called(args, st1) ==
        Outcome(IF st1.err THEN "host" ELSE "ok", k, TRUE, args, user_data, NoneV, st1)
      call_func(udata) ==
        called(<< PluginV >> \o [i \in 1..Len(inp) |-> inp[i].value] \o udata,
               ExplicitBody(fn.func, Enc(outp, mem, 0, FALSE), inp, udata))
  IN  call_func([i \in 1..Len(user_data) |-> BytesV(user_data[i])])

\* the loop that ends handle_args: _convert_output(outputs[i], outp[i]), slot
\* by slot, each native slot written as its turn comes
RECURSIVE WriteOutputs(_, _, _, _)
WriteOutputs(outputs, outp, i, written) ==
  IF i > Len(outputs) THEN [err |-> FALSE, outputs |-> outputs, written |-> written]
  ELSE LET store(c) ==
             IF c.err THEN [err |-> TRUE, outputs |-> outputs, written |-> written]
             ELSE WriteOutputs([outputs EXCEPT ![i] = c.x], outp, i + 1,
                               [written EXCEPT ![i] = TRUE])
       IN  store(_convert_output(outputs[i], outp[i]))

\* the registered function called with the index still in its bound data
DispatchWithIndex(registry, idx, inp, outp, udata, mem) ==
  IF registry[idx + 1].inferred
  THEN inner_func(registry[idx + 1], idx + 1, inp, outp, Append(udata, ToBytes4(idx)), mem)
  ELSE explicit_call(registry[idx + 1], idx + 1, inp, outp, Append(udata, ToBytes4(idx)), mem)

\* HOST_FN_REGISTRY[idx](CurrentPlugin(current), inp, outp, *udata)
Dispatch(registry, idx, inp, outp, udata, mem) ==
  LET fn == registry[idx + 1]
  IN  IF fn.inferred THEN inner_func(fn, idx + 1, inp, outp, udata, mem)
      ELSE explicit_call(fn, idx + 1, inp, outp, udata, mem)

\* handle_args: the one entry point of every boundary invocation; user_data
\* is the tuple behind the bound handle, <<>> for _ffi.NULL
handle_args(registry, inputs, outputs, user_data, mem) ==
  LET none == [i \in 1..Len(outputs) |-> FALSE]
      fail(stage, outp) ==
        [ o |-> Outcome(stage, 0, FALSE, <<>>, <<>>, NoneV, Enc(outp, mem, 0, FALSE)),
          outputs |-> outputs, written |-> none ]
      \* for i in range(n_outputs): _convert_output(outputs[i], outp[i])
      write_back(o, w) ==
        IF o.stage # "ok" THEN [o |-> o, outputs |-> outputs, written |-> none]
        ELSE [ o |-> IF w.err THEN [o EXCEPT !.stage = "write"] ELSE o,
               outputs |-> w.outputs, written |-> w.written ]
      returned(o) == write_back(o, WriteOutputs(outputs, o.outp, 1, none))
      \* idx = int.from_bytes(udata.pop()); HOST_FN_REGISTRY[idx](...)
      dispatch(inp, outp, idx, udata) ==
        IF idx >= Len(registry) THEN fail("dispatch", outp)
        ELSE returned(Dispatch(registry, idx, inp, outp, udata, mem))
      converted(ci, co, outp) ==
        IF (\E i \in 1..Len(ci) : ci[i].err) \/ (\E i \in 1..Len(co) : co[i].err)
        THEN fail("convert", outp)
        ELSE IF user_data = <<>> THEN fail("dispatch", outp)
        ELSE dispatch([i \in 1..Len(ci) |-> ci[i].val], outp,
                      FromBytes(Last(user_data)), Front(user_data))
      convert(ci, co) == converted(ci, co, [i \in 1..Len(co) |-> co[i].val])
  IN  convert([i \in 1..Len(inputs) |-> _convert_value(inputs[i])],
              [i \in 1..Len(outputs) |-> _convert_value(outputs[i])])

(* ------------------------- inputs of the model -------------------------- *)
\* annotated functions whose signature can be inferred
GoodDefs ==
  { Def(<< T("int"), T("int") >>, T("int"), "sum"),
    Def(<< T("str") >>, T("str"), "greet"),
    Def(<<>>, T("bytes"), "secret"),
    Def(<<>>, Tup(<< T("int"), T("str") >>), "pair"),
    Def(<<>>, Tup(<< T("int"), T("str") >>), "one"),
    Def(<<>>, Tup(<< T("int"), T("str") >>), "text"),
    Def(<<>>, Tup(<< T("Json"), T("Json") >>), "nums"),
    Def(<< T("Json") >>, T("Json"), "ident"),
    Def(<< T("Pickle") >>, T("Pickle"), "ident"),
    Def(<< T("Codec") >>, T("Codec"), "ident"),
    Def(<< T("float") >>, T("str"), "greet"),
    Def(<< T("str") >>, T("str"), "boom") }

\* functions host_fn cannot infer a signature for: no annotations, a Tuple
\* parameter, a parameter type and a return type with no mapping
BadDefs ==
  { Def(<<>>, Absent, "ident"),
    Def(<< Tup(<< T("int"), T("int") >>) >>, T("int"), "ident"),
    Def(<< T("list") >>, T("str"), "ident"),
    Def(<< T("int") >>, T("list"), "ident") }

\* functions written against an explicit wire signature (no annotations)
ExplicitDefs ==
  { Def(<<>>, Absent, "hello_world"), Def(<<>>, Absent, "set_all") }

\* the signature argument of host_fn: None, or (parameter types, return types)
NoSignature == [explicit |-> FALSE, args |-> <<>>, returns |-> <<>>]
Signatures ==
  { [explicit |-> TRUE, args |-> << I64 >>, returns |-> << I64 >>],
    [explicit |-> TRUE, args |-> <<>>, returns |-> << I64, F32 >>] }

\* the user_data argument of host_fn: None, bytes, or a list of bytes
Payloads == { << 115 >>, << 116 >> }

\* Function objects built directly, without host_fn, around handle_args: no
\* user data, an index past the registry, and payloads b"s" and b"\x00"
\* with no index after them
BareFunctions ==
  { Function("bare", <<>>, << I64 >>, ud, FALSE, FALSE, <<>>, <<>>, "bare")
      : ud \in { <<>>, << ToBytes4(7) >>, << << 115 >> >>, << << 0 >> >> } }

\* guest memory at the time of a boundary invocation: text "w" at offset 1,
\* bytes that are no UTF-8 at 2, the JSON document 7 at 3, a pickle of 5 at 4
GuestMem == << << 119 >>, << 255 >>, << 55 >>, << 128, 4, 75, 5, 46 >> >>

\* the values the guest passes in an I64 slot; 9 is an offset outside every
\* block of GuestMem
WireValues == {3, 4, 9}

\* all sequences of native values for the wire types ts, the I64 slots
\* holding the values of vals
RECURSIVE WireInputs(_, _)
WireInputs(ts, vals) ==
  IF ts = <<>> THEN { <<>> }
  ELSE { << Native(Head(ts), v) >> \o rest :
           v \in (IF Head(ts) = I64 THEN vals ELSE {2}),
           rest \in WireInputs(Tail(ts), vals) }

(* --------------------------------- state ------------------------------- *)
NoOutcome == Outcome("none", 0, FALSE, <<>>, <<>>, NoneV, Enc(<<>>, <<>>, 0, FALSE))

NoCall ==
  [ done |-> FALSE, target |-> 0, user_data |-> <<>>, args |-> <<>>, returns |-> <<>>,
    inputs |-> <<>>, outputs0 |-> <<>>, outputs |-> <<>>, written |-> <<>>,
    o |-> NoOutcome ]

\* no CompiledPlugin or Plugin object yet, no native free call made.
\* compiled and plugins hold the Python objects with their attributes (and
\* dels, exited, raw: how often __del__ ran on the object, whether its
\* context manager exited, whether it was built from raw plugin data);
\* compiled_free and plugin_free log the calls of
\* extism_compiled_plugin_free and extism_plugin_free: the object whose
\* __del__ made the call, and the argument passed
NoObjects ==
  [ compiled |-> <<>>, plugins |-> <<>>, compiled_free |-> <<>>, plugin_free |-> <<>> ]

\* the callers of the pool
Callers == 1..MaxCallers

\* a caller outside every call: pc is its position in Pool.get / async_get,
\* timeout, p and exc the arguments and locals of its call ("None" and 0 are
\* None)
IdleCaller ==
  [ pc |-> "idle", timeout |-> "None", p |-> 0, exc |-> "None" ]

\* no Pool yet. Of a Pool with one added name: max_instances, the list
\* _instances[name], the Lock _locks[name] (owner: the caller whose acquire
\* took the present hold), the callers, whether callers 1 and 2 are
\* coroutines of one event loop, and for each thread the caller it is running
NoPool ==
  [ added |-> FALSE, max_instances |-> 0, instances |-> <<>>,
    lock |-> [locked |-> FALSE, owner |-> 0],
    callers |-> [c \in Callers |-> IdleCaller],
    shared |-> FALSE, cur |-> [t \in Callers |-> 0] ]

Init ==
  /\ HOST_FN_REGISTRY = <<>>
  /\ lists = <<>>
  /\ decorators = <<>>
  /\ reg = [ attempts |-> 0, ok |-> 0, last |-> "none", last_func |-> Def(<<>>, Absent, ""),
             last_explicit |-> FALSE, declared |-> <<>>, funcs |-> <<>> ]
  /\ call = NoCall
  /\ pcall = [state |-> "idle"]
  /\ objs = NoObjects
  /\ pool = NoPool

(* ------------------------------ registration --------------------------- *)
\* host_fn(..., signature, user_data): None becomes a new empty list, bytes a
\* new one-element list, and a list is kept as the caller's own list object;
\* l = 0 is a list the caller has just built with the payload b
host_fn(signature, form, b, l) ==
  /\ Len(decorators) < MaxDecorators
  /\ \/ /\ form = "None" /\ l = 0
        /\ lists' = Append(lists, [items |-> <<>>, caller |-> FALSE])
        /\ decorators' = Append(decorators,
             [user_data |-> Len(lists) + 1, signature |-> signature, given |-> <<>>])
     \/ /\ form = "bytes" /\ l = 0
        /\ lists' = Append(lists, [items |-> << b >>, caller |-> FALSE])
        /\ decorators' = Append(decorators,
             [user_data |-> Len(lists) + 1, signature |-> signature, given |-> << b >>])
     \/ /\ form = "list" /\ l = 0
        /\ lists' = Append(lists, [items |-> << b >>, caller |-> TRUE])
        /\ decorators' = Append(decorators,
             [user_data |-> Len(lists) + 1, signature |-> signature, given |-> << b >>])
     \/ /\ form = "list" /\ l \in 1..Len(lists) /\ lists[l].caller
        /\ lists' = lists
        /\ decorators' = Append(decorators,
             [user_data |-> l, signature |-> signature, given |-> lists[l].items])
  /\ UNCHANGED <<HOST_FN_REGISTRY, reg, call, pcall, objs, pool>>

\* an index counted from 1
NextIndexFromOne(registry) == Len(registry) + 1

\* the index host_fn.outer gives the function it registers
NextIndex(registry) == Len(registry)

\* host_fn.outer: the decorator d applied to func. reg keeps what the
\* declaring caller saw (last) and, for each registered function, the
\* payload and the function it was declared with
outer(d, func) ==
  /\ LET dec == decorators[d]
         register(user_data, r) ==
           /\ lists' = [lists EXCEPT ![dec.user_data].items = user_data]
           /\ IF r.err
              THEN /\ HOST_FN_REGISTRY' = HOST_FN_REGISTRY
                   /\ reg' = [reg EXCEPT !.attempts = @ + 1, !.last = "TypeError",
                                         !.last_func = func,
                                         !.last_explicit = dec.signature.explicit]
              ELSE /\ HOST_FN_REGISTRY' = Append(HOST_FN_REGISTRY, r.fn)
                   /\ reg' = [reg EXCEPT !.attempts = @ + 1, !.ok = @ + 1, !.last = "ok",
                                         !.last_func = func,
                                         !.last_explicit = dec.signature.explicit,
                                         !.declared = Append(@, dec.given),
                                         !.funcs = Append(@, func)]
         construct(user_data) ==
           register(user_data,
                    IF ~dec.signature.explicit
                    THEN TypeInferredFunction(func.body, func, user_data)
                    ELSE ExplicitFunction(func.body, dec.signature.args,
                                          dec.signature.returns, func, user_data))
     IN  construct(Append(lists[dec.user_data].items,
                          ToBytes4(NextIndex(HOST_FN_REGISTRY))))
  /\ UNCHANGED <<decorators, call, pcall, objs, pool>>

(* ------------------------------- plugin calls --------------------------- *)
\* Plugin.call up to the native call: the guest starts running
plugin_call ==
  /\ pcall.state # "guest"
  /\ pcall' = [state |-> "guest"]
  /\ call' = NoCall
  /\ UNCHANGED <<HOST_FN_REGISTRY, lists, decorators, reg, objs, pool>>

\* the bound data after a pop on the tuple behind the handle itself
BoundAfterPop(user_data) == IF user_data = <<>> THEN <<>> ELSE Front(user_data)

\* the tuple behind a Function's handle after handle_args has run:
\* udata = list(_ffi.from_handle(user_data)) is a new list, so udata.pop()
\* takes the index from the copy and the bound tuple stays as it was
BoundAfterCall(user_data) == user_data

\* the guest calls an imported host function: the engine enters handle_args
\* with the slots and the bound user data of the Function fn, the k-th of
\* HOST_FN_REGISTRY or (k = 0) one built without host_fn. handle_args is
\* a cffi callback declared without an error value or handler, so an
\* exception that leaves it is printed and the callback returns to the engine
boundary_invocation(k, fn, inputs) ==
  /\ pcall.state = "guest"
  /\ LET record(outputs, r) ==
           call' = [ done |-> TRUE, target |-> k, user_data |-> fn.user_data,
                     args |-> fn.args, returns |-> fn.returns,
                     inputs |-> inputs, outputs0 |-> outputs,
                     outputs |-> r.outputs, written |-> r.written, o |-> r.o ]
         enter(outputs) ==
           record(outputs,
                  handle_args(HOST_FN_REGISTRY, inputs, outputs, fn.user_data, GuestMem))
     IN  enter([i \in 1..Len(fn.returns) |-> Native(fn.returns[i], 0)])
  /\ HOST_FN_REGISTRY' =
       IF k = 0 THEN HOST_FN_REGISTRY
       ELSE [HOST_FN_REGISTRY EXCEPT ![k].user_data = BoundAfterCall(@)]
  /\ UNCHANGED <<lists, decorators, reg, pcall, objs, pool>>

\* the guest function ends and Plugin.call goes through _check_error: it
\* raises extism.Error when the engine reports an error or a non-zero code,
\* which the engine decides from the guest's own run
plugin_return(error) ==
  /\ pcall.state = "guest"
  /\ pcall' = [pcall EXCEPT !.state = IF error THEN "raised" ELSE "returned"]
  /\ UNCHANGED <<HOST_FN_REGISTRY, lists, decorators, reg, call, objs, pool>>

(* ------------------------------ object lifecycle ------------------------ *)
\* hasattr(obj, name): the object has an attribute of that name
hasattr(obj, name) == name \in DOMAIN obj

\* CompiledPlugin.__init__: pointer is the handle extism_compiled_plugin_new
\* returns, a fresh one
NewCompiled(o) ==
  [ pointer |-> Len(o.compiled) + 1, dels |-> 0 ]

CompiledPlugin_init ==
  /\ Len(objs.compiled) < MaxObjects
  /\ objs' = [objs EXCEPT !.compiled = Append(@, NewCompiled(objs))]
  /\ UNCHANGED <<HOST_FN_REGISTRY, lists, decorators, reg, call, pcall, pool>>

\* CompiledPlugin.__del__ on the c-th CompiledPlugin
CompiledPlugin_del(c) ==
  /\ objs.compiled[c].dels < MaxDels
  /\ LET self == objs.compiled[c]
     IN  IF ~hasattr(self, "pointer")
         THEN objs' = [objs EXCEPT !.compiled[c].dels = @ + 1]
         ELSE objs' = [objs EXCEPT !.compiled_free = Append(@, [self |-> c, arg |-> self.pointer]),
                                   !.compiled[c].pointer = -1,
                                   !.compiled[c].dels = @ + 1]
  /\ UNCHANGED <<HOST_FN_REGISTRY, lists, decorators, reg, call, pcall, pool>>

\* Plugin.__init__(plugin): c = 0 is raw plugin data (a manifest, bytes or
\* a dict), from which a CompiledPlugin is built first; c > 0 is the c-th
\* CompiledPlugin, supplied by the caller. The attributes set are
\* compiled_plugin and plugin, the handle of extism_plugin_new_from_compiled
Plugin_init(c) ==
  /\ Len(objs.plugins) < MaxObjects
  /\ LET create(o, cp, raw) ==
           objs' = [o EXCEPT !.plugins = Append(@,
                      [ compiled_plugin |-> cp, plugin |-> Len(o.plugins) + 1,
                        dels |-> 0, exited |-> FALSE, raw |-> raw ])]
     IN  IF c = 0
         THEN /\ Len(objs.compiled) < MaxObjects
              /\ create([objs EXCEPT !.compiled = Append(@, NewCompiled(objs))],
                        Len(objs.compiled) + 1, TRUE)
         ELSE /\ objs.compiled[c].pointer # -1
              /\ create(objs, c, FALSE)
  /\ UNCHANGED <<HOST_FN_REGISTRY, lists, decorators, reg, call, pcall, pool>>

\* the body of Plugin.__del__ on the p-th Plugin: the objects after it
PluginDel(o, p) ==
  LET self == o.plugins[p]
  IN  IF ~hasattr(self, "pointer")
      THEN [o EXCEPT !.plugins[p].dels = @ + 1]
      ELSE [o EXCEPT !.plugin_free = Append(@, [self |-> p, arg |-> self.plugin]),
                     !.plugins[p].plugin = -1,
                     !.plugins[p].dels = @ + 1]

\* Plugin.__del__, called by the caller or by the collector
Plugin_del(p) ==
  /\ objs.plugins[p].dels < MaxDels
  /\ objs' = PluginDel(objs, p)
  /\ UNCHANGED <<HOST_FN_REGISTRY, lists, decorators, reg, call, pcall, pool>>

\* Plugin.__exit__: the with block ends, and __del__ is called
Plugin_exit(p) ==
  /\ objs.plugins[p].dels < MaxDels
  /\ ~objs.plugins[p].exited
  /\ objs' = PluginDel([objs EXCEPT !.plugins[p].exited = TRUE], p)
  /\ UNCHANGED <<HOST_FN_REGISTRY, lists, decorators, reg, call, pcall, pool>>

(* ------------------------------ instance pool --------------------------- *)
\* the thread a caller runs on: callers 1 and 2 are coroutines of the event
\* loop of thread 1 when the pool is shared, every other caller is a thread
ThreadOf(pl, c) == IF pl.shared /\ c <= 2 THEN 1 ELSE c

\* the caller's thread is free to run its code: it is not in the middle of
\* another coroutine, nor blocked in one
CanRun(c) == pool.cur[ThreadOf(pool, c)] \in {0, c}

\* the caller's thread after a step of c: running c, or (0) back in the loop
Runs(pl, c, who) == [pl EXCEPT !.cur[ThreadOf(pl, c)] = who]

\* Pool._find_available, the loop up to the test `if not instance.active`:
\* the first instance that is not active, 0 for none
FirstInactive(entry) ==
  IF \E i \in 1..Len(entry) : ~entry[i].active
  THEN CHOOSE i \in 1..Len(entry) :
         /\ ~entry[i].active
         /\ \A j \in 1..(i - 1) : entry[j].active
  ELSE 0

\* room for an instance more than the limit allows
HasRoomUpTo(entry, max_instances) == Len(entry) <= max_instances

\* len(entry) < self.max_instances
HasRoom(entry, max_instances) == Len(entry) < max_instances

\* lock.release() by caller c on a locked Lock: a Lock is released by
\* whoever calls release, whichever caller acquired it
LockRelease(pl, c) ==
  [pl EXCEPT !.lock = [locked |-> FALSE, owner |-> 0]]

\* lock.release() on an unlocked Lock raises RuntimeError
ReleaseRaises(pl, c) ==
  [pl EXCEPT !.callers[c].exc = "RuntimeError"]

PoolFrame == UNCHANGED <<HOST_FN_REGISTRY, lists, decorators, reg, call, pcall, objs>>

\* pool = Pool(max_instances); pool.add(name, source)
Pool_add(max_instances, shared) ==
  /\ ~pool.added
  /\ pool' = [NoPool EXCEPT !.added = TRUE, !.max_instances = max_instances,
                            !.shared = shared]
  /\ PoolFrame

\* a call of async_get(name, timeout) starts to run, up to lock.acquire()
StartCall(pl, c, timeout) ==
  Runs([pl EXCEPT !.callers[c] = [IdleCaller EXCEPT !.pc = "acquire",
                                                    !.timeout = timeout]], c, c)

\* await pool.async_get(name, timeout)
async_get(c, timeout) ==
  /\ pool.added /\ pool.callers[c].pc \in {"idle", "raised"} /\ CanRun(c)
  /\ pool' = StartCall(pool, c, timeout)
  /\ PoolFrame

\* Pool.get(name, timeout): fut = self.async_get(name, timeout), a coroutine
\* that has not run yet
get(c, timeout) ==
  /\ pool.added /\ pool.callers[c].pc \in {"idle", "raised"} /\ CanRun(c)
  /\ pool' = [pool EXCEPT !.callers[c] = [IdleCaller EXCEPT !.pc = "fut",
                                                            !.timeout = timeout]]
  /\ PoolFrame

\* the coroutine of Pool.get runs: asyncio.run(fut), or the caller awaits
\* the fut that get returned
run_fut(c) ==
  /\ pool.callers[c].pc = "fut" /\ CanRun(c)
  /\ pool' = StartCall(pool, c, pool.callers[c].timeout)
  /\ PoolFrame

\* lock.acquire(): blocks the caller's thread while the Lock is held
lock_acquire(c) ==
  /\ pool.callers[c].pc = "acquire" /\ ~pool.lock.locked
  /\ pool' = [pool EXCEPT !.lock = [locked |-> TRUE, owner |-> c],
                          !.callers[c].pc = "find"]
  /\ PoolFrame

\* p = self._find_available(name), up to the test of instance.active
find_available(c) ==
  /\ pool.callers[c].pc = "find"
  /\ pool' = IF FirstInactive(pool.instances) # 0
             THEN [pool EXCEPT !.callers[c].p = FirstInactive(pool.instances),
                               !.callers[c].pc = "activate"]
             ELSE [pool EXCEPT !.callers[c].pc = "room"]
  /\ PoolFrame

\* return instance.make_active()
make_active(c) ==
  /\ pool.callers[c].pc = "activate"
  /\ pool' = [pool EXCEPT !.instances[pool.callers[c].p].active = TRUE,
                          !.callers[c].pc = "return"]
  /\ PoolFrame

\* lock.release(); return p
return_instance(c) ==
  /\ pool.callers[c].pc = "return"
  /\ pool' = IF pool.lock.locked
             THEN Runs([LockRelease(pool, c) EXCEPT !.callers[c].pc = "holding"], c, 0)
             ELSE [ReleaseRaises(pool, c) EXCEPT !.callers[c].pc = "except"]
  /\ PoolFrame

\* if len(entry) < self.max_instances
check_room(c) ==
  /\ pool.callers[c].pc = "room"
  /\ pool' = [pool EXCEPT !.callers[c].pc =
                IF HasRoom(pool.instances, pool.max_instances) THEN "create" ELSE "loop"]
  /\ PoolFrame

\* p = PoolPlugin(self._plugins[name](), active=True); entry.append(p)
create_instance(c) ==
  /\ pool.callers[c].pc = "create"
  /\ pool' = [pool EXCEPT !.instances = Append(@, [active |-> TRUE]),
                          !.callers[c].p = Len(pool.instances) + 1,
                          !.callers[c].pc = "return"]
  /\ PoolFrame

\* one round of the while loop: an instance found, or await asyncio.sleep(0)
\* when timeout is None, or the timeout test; elapsed tells whether
\* time.time() - start has reached timeout
wait_loop(c, elapsed) ==
  /\ pool.callers[c].pc = "loop" /\ CanRun(c)
  /\ pool' =
       IF FirstInactive(pool.instances) # 0
       THEN Runs([pool EXCEPT !.callers[c].p = FirstInactive(pool.instances),
                              !.callers[c].pc = "activate"], c, c)
       ELSE IF pool.callers[c].timeout = "None" THEN Runs(pool, c, 0)
       ELSE IF ~elapsed THEN Runs(pool, c, c)
       ELSE IF pool.lock.locked
       THEN Runs([LockRelease(pool, c) EXCEPT !.callers[c].exc = "PoolError",
                                              !.callers[c].pc = "except"], c, c)
       ELSE Runs([ReleaseRaises(pool, c) EXCEPT !.callers[c].pc = "except"], c, c)
  /\ PoolFrame

\* except Exception as exc: lock.release(); raise exc
except_handler(c) ==
  /\ pool.callers[c].pc = "except"
  /\ pool' = IF pool.lock.locked
             THEN Runs([LockRelease(pool, c) EXCEPT !.callers[c].pc = "raised",
                                                    !.callers[c].p = 0], c, 0)
             ELSE Runs([ReleaseRaises(pool, c) EXCEPT !.callers[c].pc = "raised",
                                                      !.callers[c].p = 0], c, 0)
  /\ PoolFrame

\* PoolPlugin.__exit__ of the instance the caller was handed
PoolPlugin_exit(c) ==
  /\ pool.callers[c].pc = "holding" /\ CanRun(c)
  /\ pool' = [pool EXCEPT !.instances[pool.callers[c].p].active = FALSE,
                          !.callers[c] = IdleCaller]
  /\ PoolFrame

(* ----------------------------- specifications --------------------------- *)
\* declarations: host_fn(...) calls and decorators applied to the functions
\* of defs, at most max of them
Register(defs, sigs, forms, payloads, max) ==
  \/ \E sig \in sigs, form \in forms, b \in payloads, l \in 0..Len(lists) :
        host_fn(sig, form, b, l)
  \/ \E d \in 1..Len(decorators), func \in defs :
        /\ reg.attempts < max
        /\ decorators[d].signature.explicit <=> func \in ExplicitDefs
        /\ outer(d, func)

\* top-level calls and the boundary invocations the guest makes in them
Invoke(bare, vals, errors) ==
  \/ plugin_call
  \/ \E k \in 1..Len(HOST_FN_REGISTRY) :
       \E inputs \in WireInputs(HOST_FN_REGISTRY[k].args, vals) :
         boundary_invocation(k, HOST_FN_REGISTRY[k], inputs)
  \/ \E fn \in bare : \E inputs \in WireInputs(fn.args, vals) :
       boundary_invocation(0, fn, inputs)
  \/ \E error \in errors : plugin_return(error)

Next ==
  \/ Register(GoodDefs \cup ExplicitDefs, {NoSignature} \cup Signatures,
              {"None", "bytes"}, Payloads, MaxCallAttempts)
  \/ Invoke(BareFunctions, WireValues, BOOLEAN)

Spec == Init /\ [][Next]_vars

\* the declarations of SpecReg: the functions whose inference fails too, and
\* user_data given as a list
RegDefs ==
  { Def(<< T("int"), T("int") >>, T("int"), "sum"),
    Def(<<>>, Absent, "hello_world") } \cup BadDefs

NextReg ==
  \/ Register(RegDefs, {NoSignature, CHOOSE sig \in Signatures : sig.args # <<>>},
              {"list"}, {<< 115 >>}, MaxAttempts)
  \/ Invoke({CHOOSE fn \in BareFunctions : fn.user_data = <<>>}, {3}, {FALSE})

SpecReg == Init /\ [][NextReg]_vars

\* the declarations of SpecShape: the functions declared -> Tuple[int, str],
\* and sum
ShapeDefs ==
  { f \in GoodDefs : f.ret = Tup(<< T("int"), T("str") >>) \/ f.body = "sum" }

NextShape ==
  \/ Register(ShapeDefs, {NoSignature}, {"None", "bytes"}, {<< 115 >>}, MaxCallAttempts)
  \/ Invoke({CHOOSE fn \in BareFunctions : fn.user_data = <<>>}, {3}, {FALSE})

SpecShape == Init /\ [][NextShape]_vars

\* the declarations of SpecInfer: a leading CurrentPlugin parameter, no
\* return annotation, Tuple returns, and the three numeric types
InferDefs ==
  { Def(<< T("int"), T("int") >>, T("int"), "sum"),
    Def(<< T("CurrentPlugin"), T("str") >>, T("str"), "ctx_greet"),
    Def(<< T("str") >>, Absent, "greet"),
    Def(<<>>, Tup(<< T("int"), T("str") >>), "pair"),
    Def(<<>>, Tup(<< T("float"), T("str") >>), "pair"),
    Def(<< T("bool"), T("float") >>, T("bool"), "ident") }

NextInfer ==
  \/ Register(InferDefs, {NoSignature}, {"bytes"}, {<< 115 >>}, MaxCallAttempts)
  \/ Invoke({CHOOSE fn \in BareFunctions : fn.user_data = <<>>}, {3, 4}, {FALSE})

SpecInfer == Init /\ [][NextInfer]_vars

\* the declarations of SpecCodec: functions that hand back what they were
\* given, one per kind that lives in guest memory, and functions returning
\* empty text, empty bytes and text outside ASCII
CodecDefs ==
  { Def(<< T(kind) >>, T(kind), "ident") : kind \in {"str", "bytes", "Json", "Pickle", "Codec"} }
  \cup { Def(<<>>, T("str"), "empty_text"), Def(<<>>, T("bytes"), "empty_bytes"),
         Def(<<>>, T("str"), "accent") }

NextCodec ==
  \/ Register(CodecDefs, {NoSignature}, {"None"}, {<< 115 >>}, MaxCallAttempts)
  \/ Invoke({CHOOSE fn \in BareFunctions : fn.user_data = <<>>}, {3, 4}, {FALSE})

SpecCodec == Init /\ [][NextCodec]_vars

\* the lives of CompiledPlugin and Plugin objects: construction from raw
\* data or from a caller's CompiledPlugin, context exits and __del__ runs
NextLife ==
  \/ CompiledPlugin_init
  \/ \E c \in 0..Len(objs.compiled) : Plugin_init(c)
  \/ \E p \in 1..Len(objs.plugins) : Plugin_exit(p)
  \/ \E p \in 1..Len(objs.plugins) : Plugin_del(p)
  \/ \E c \in 1..Len(objs.compiled) : CompiledPlugin_del(c)

SpecLife == Init /\ [][NextLife]_vars

\* the steps of the callers of one pool, their calls made with the timeouts of
\* timeouts, in pools whose callers 1 and 2 share a loop as shareds tells
NextPool(timeouts, shareds) ==
  \/ \E m \in 1..MaxInstances, shared \in shareds : Pool_add(m, shared)
  \/ \E c \in Callers, timeout \in timeouts : async_get(c, timeout)
  \/ \E c \in Callers, timeout \in timeouts : get(c, timeout)
  \/ \E c \in Callers : run_fut(c)
  \/ \E c \in Callers : lock_acquire(c)
  \/ \E c \in Callers : find_available(c)
  \/ \E c \in Callers : make_active(c)
  \/ \E c \in Callers : return_instance(c)
  \/ \E c \in Callers : check_room(c)
  \/ \E c \in Callers : create_instance(c)
  \/ \E c \in Callers, elapsed \in BOOLEAN : wait_loop(c, elapsed)
  \/ \E c \in Callers : except_handler(c)
  \/ \E c \in Callers : PoolPlugin_exit(c)

\* threads calling get and async_get with and without a timeout
NextThreads == NextPool({"None", "t"}, {FALSE})

SpecThreads == Init /\ [][NextThreads]_vars

\* threads whose calls all carry a timeout: a caller waits as long as the
\* timeout has not run out
NextRoom == NextPool({"t"}, {FALSE})

SpecRoom == Init /\ [][NextRoom]_vars

\* calls without a timeout, by threads or by coroutines of one loop; no
\* exception arises in them, so the except handler is never entered
NextLoop ==
  \/ \E m \in 1..MaxInstances, shared \in BOOLEAN : Pool_add(m, shared)
  \/ \E c \in Callers : async_get(c, "None")
  \/ \E c \in Callers : get(c, "None")
  \/ \E c \in Callers : run_fut(c)
  \/ \E c \in Callers : lock_acquire(c)
  \/ \E c \in Callers : find_available(c)
  \/ \E c \in Callers : make_active(c)
  \/ \E c \in Callers : return_instance(c)
  \/ \E c \in Callers : check_room(c)
  \/ \E c \in Callers : create_instance(c)
  \/ \E c \in Callers : wait_loop(c, FALSE)
  \/ \E c \in Callers : PoolPlugin_exit(c)

\* what a caller does once its call has started, and the release of the
\* instance it was handed
CallerStep(c) ==
  \/ run_fut(c) \/ find_available(c) \/ make_active(c) \/ return_instance(c)
  \/ check_room(c) \/ create_instance(c) \/ wait_loop(c, FALSE)
  \/ PoolPlugin_exit(c)

\* every thread goes on running and every event loop resumes the coroutines
\* that are ready; every instance handed out is released in the end; a
\* caller blocked in lock.acquire() gets the Lock if it is free again and
\* again
FairLoop ==
  \A c \in Callers : WF_vars(CallerStep(c)) /\ SF_vars(lock_acquire(c))

SpecLoop == Init /\ [][NextLoop]_vars /\ FairLoop

(* -------------------------------- claims -------------------------------- *)
\* the last boundary invocation ran the trampoline of a registered function
Dispatched == call.done /\ call.o.dispatched > 0
CallFn == HOST_FN_REGISTRY[call.o.dispatched]
CallDef == reg.funcs[call.o.dispatched]
\* the user's function ran in it and returned a value
Returned == Dispatched /\ call.o.invoked /\ call.o.stage # "host"
NoSlotWritten == \A i \in 1..Len(call.written) : ~call.written[i]
AllSlotsWritten == \A i \in 1..Len(call.written) : call.written[i]

\* what the encoder of kind em is to produce for the value v
Encodable(em, v) ==
  CASE em = "str"    -> v.k = "str"
    [] em = "bytes"  -> v.k = "bytes"
    [] em \in {"int", "float", "bool"} -> v.k \in {"int", "float"}
    [] em = "Json"   -> ~JsonDumps(v).err
    [] em = "Pickle" -> ~PickleDumps(v).err
    [] em = "Codec"  -> ~CodecOut(v).err
    [] OTHER -> FALSE

EncodedBytes(em, v) ==
  CASE em = "str"    -> Utf8Encode(v.b)
    [] em = "bytes"  -> v.b
    [] em = "Json"   -> Utf8Encode(JsonDumps(v).s)
    [] em = "Pickle" -> PickleDumps(v).b
    [] OTHER         -> CodecOut(v).value.b

\* native output slot i holds the encoding of v: the number itself, or the
\* offset of a block of guest memory that holds the encoded bytes
SlotHolds(i, em, v) ==
  /\ call.written[i]
  /\ IF em \in {"int", "float", "bool"} THEN call.outputs[i].v = v.n
     ELSE /\ call.outputs[i].v \in 1..Len(call.o.mem)
          /\ call.o.mem[call.outputs[i].v] = EncodedBytes(em, v)

\* C1: when a type-inferred host function declared -> Tuple[K1..Kn] returns an
\* n-tuple its encoders accept, the call succeeds and output slot i holds the
\* encoding of component i; a non-tuple return is encoded whole into the one slot.
C1_TupleComponents ==
  (Returned /\ CallFn.inferred) =>
    LET comps == IF CallDef.ret.k = "Tuple" THEN call.o.result.t ELSE << call.o.result >>
        em    == CallFn.emplace
    IN  (Len(comps) = Len(em) /\ \A i \in 1..Len(em) : Encodable(em[i], comps[i]))
          => /\ call.o.stage = "ok"
             /\ \A i \in 1..Len(em) : SlotHolds(i, em[i], comps[i])

\* C2: sum(a: int, b: int) -> int called with wire inputs (3, 4) leaves 7 in
\* its I64 output slot without any alloc; a returned int, float or bool is
\* stored directly as the value of the output slot.
C2_SumDirect ==
  /\ (Returned /\ CallFn.inferred /\ Len(CallFn.emplace) = 1
        /\ CallFn.emplace[1] \in {"int", "float", "bool"}
        /\ call.o.result.k \in {"int", "float"})
       => /\ call.o.stage = "ok"
          /\ call.o.allocs = 0
          /\ call.written[1] /\ call.outputs[1].v = call.o.result.n
  /\ (Returned /\ CallDef.body = "sum"
        /\ call.inputs = << Native(I64, 3), Native(I64, 4) >>)
       => call.o.stage = "ok" /\ call.outputs = << Native(I64, 7) >>

\* C3: when a decoder, the host function or an encoder raises in a boundary
\* invocation, the Plugin.call that triggered it raises extism.Error: it
\* never returns normally, the guest having run on with the output slots as
\* they stood.
C3_FailureReported ==
  (call.done /\ call.target > 0 /\ call.o.stage \in {"decode", "host", "encode"})
    => pcall.state # "returned"

\* C4: a boundary invocation that fails has written none of the native
\* output slots; the slots of a call are all written or all untouched.
C4_AllOrNothing ==
  call.done =>
    /\ call.o.stage # "ok" => NoSlotWritten
    /\ AllSlotsWritten \/ NoSlotWritten

\* C5: a boundary invocation carrying the bound data of the registered
\* function f runs f's trampoline and no other, and f receives exactly the
\* payload given when f was declared, the index removed.
C5_OwnPayload ==
  (call.done /\ call.target > 0) =>
    /\ call.o.dispatched \in {0, call.target}
    /\ call.o.invoked => call.o.payload = reg.declared[call.target]

\* the bound data of the last invocation names no position of the registry:
\* it was built without host_fn, is empty, or ends in an index out of range
NoValidPosition ==
  \/ call.target = 0
  \/ call.user_data = <<>>
  \/ FromBytes(Last(call.user_data)) >= Len(HOST_FN_REGISTRY)

\* C7: a boundary invocation whose bound data carries no valid registry
\* position fails at dispatch, invokes no host function and writes no slot.
C7_NoValidIndex ==
  (call.done /\ NoValidPosition) =>
    /\ call.o.stage = "dispatch"
    /\ ~call.o.invoked /\ call.o.dispatched = 0
    /\ NoSlotWritten

\* wire input x of a parameter decoded by ex cannot be decoded: its offset
\* is outside guest memory, or the decoder raises on the bytes there
BadInput(ex, x) ==
  /\ ex \in {"str", "bytes", "Json", "Pickle", "Codec"}
  /\ \/ x.v \notin 1..Len(GuestMem)
     \/ Extract(ex, GuestMem, Val(x.t, IntV(x.v))).err

\* C9: if any wire input of a type-inferred host function cannot be decoded,
\* the call fails in decoding and the host function is never invoked.
C9_DecodeBeforeHost ==
  (Dispatched /\ CallFn.inferred
     /\ \E i \in 1..Min(Len(CallFn.extract), Len(call.inputs)) :
          BadInput(CallFn.extract[i], call.inputs[i]))
    => call.o.stage = "decode" /\ ~call.o.invoked

C6_IndexStable ==
  /\ [](/\ Len(HOST_FN_REGISTRY) = reg.ok
        /\ \A k \in 1..Len(HOST_FN_REGISTRY) :
             /\ HOST_FN_REGISTRY[k].user_data # <<>>
             /\ Last(HOST_FN_REGISTRY[k].user_data) = << 0, 0, 0, k - 1 >>
             /\ HOST_FN_REGISTRY[k].func = reg.funcs[k].body)
  /\ [][/\ Len(HOST_FN_REGISTRY') >= Len(HOST_FN_REGISTRY)
        /\ \A k \in 1..Len(HOST_FN_REGISTRY) : HOST_FN_REGISTRY'[k] = HOST_FN_REGISTRY[k]]_vars

\* three functions are registered, after a boundary invocation took place
C6_Witness == Len(HOST_FN_REGISTRY) = 3 /\ call.done

\* C8: when host_fn cannot infer the signature of a function (no annotations,
\* a Tuple parameter, a parameter or return type with no mapping) the
\* declaring caller gets the TypeError and HOST_FN_REGISTRY is unchanged.
C8_FailedRegistration ==
  [][(reg'.attempts = reg.attempts + 1 /\ ~reg'.last_explicit /\ reg'.last_func \in BadDefs)
       => (reg'.last = "TypeError" /\ HOST_FN_REGISTRY' = HOST_FN_REGISTRY)]_vars

\* a registration failed after another had succeeded, and the registry
\* still holds exactly the function registered before
C8_Witness ==
  /\ reg.last = "TypeError" /\ reg.last_func \in BadDefs
  /\ reg.ok = 1 /\ Len(HOST_FN_REGISTRY) = 1

\* the wire type a semantic kind travels as
WireOf(kind) ==
  CASE kind.k = "float" -> F64
    [] kind.k = "bool"  -> I32
    [] OTHER            -> I64

\* the parameters that take a wire input: all but a leading CurrentPlugin
WireParams(f) ==
  IF f.params # <<>> /\ f.params[1].k = "CurrentPlugin" THEN Tail(f.params) ELSE f.params

\* the members of a return annotation: those of a Tuple, the annotation
\* itself, or none when there is no return annotation
ReturnMembers(f) ==
  IF f.ret = Absent THEN <<>>
  ELSE IF f.ret.k = "Tuple" THEN f.ret.args ELSE << f.ret >>

\* C11: signature inference yields one wire return type per member of a Tuple
\* return type in declared order, one for a non-tuple return type and none
\* without a return type; a leading CurrentPlugin parameter is left out of the
\* wire parameters and every other parameter gives one wire parameter, in order.
C11_SignatureShape ==
  \A k \in 1..Len(HOST_FN_REGISTRY) :
    HOST_FN_REGISTRY[k].inferred =>
      /\ HOST_FN_REGISTRY[k].returns =
           [i \in 1..Len(ReturnMembers(reg.funcs[k])) |-> WireOf(ReturnMembers(reg.funcs[k])[i])]
      /\ HOST_FN_REGISTRY[k].args =
           [i \in 1..Len(WireParams(reg.funcs[k])) |-> WireOf(WireParams(reg.funcs[k])[i])]

\* registered together: a function with a leading CurrentPlugin parameter
\* (one wire parameter) and one declared -> Tuple[float, str] ([F64, I64])
C11_Witness ==
  /\ \E k \in 1..Len(HOST_FN_REGISTRY) :
       /\ reg.funcs[k].params = << T("CurrentPlugin"), T("str") >>
       /\ HOST_FN_REGISTRY[k].args = << I64 >>
  /\ \E k \in 1..Len(HOST_FN_REGISTRY) :
       /\ reg.funcs[k].ret = Tup(<< T("float"), T("str") >>)
       /\ HOST_FN_REGISTRY[k].returns = << F64, I64 >>

\* the Vals handle_args makes of the native inputs of the last invocation
CallInputVals == [i \in 1..Len(call.inputs) |-> _convert_value(call.inputs[i]).val]

\* the bound extra data of the last invocation, without the trailing index,
\* as the bytes objects the function is handed
CallBoundData ==
  [i \in 1..(Len(call.user_data) - 1) |-> BytesV(call.user_data[i])]

\* C12: a type-inferred host function receives the CurrentPlugin (only when
\* its first declared parameter is CurrentPlugin), then the decoded value of
\* each wire input in input order, then every element of its bound extra data
\* in order.
C12_ArgumentOrder ==
  (Dispatched /\ CallFn.inferred /\ call.o.invoked) =>
    call.o.host_args =
      (IF CallDef.params # <<>> /\ CallDef.params[1].k = "CurrentPlugin"
       THEN << PluginV >> ELSE <<>>)
      \o [i \in 1..Len(call.inputs) |->
            Extract(CallFn.extract[i], GuestMem, CallInputVals[i]).value]
      \o CallBoundData

\* f(p: CurrentPlugin, who: str, *user_data) bound with b"s" was called with
\* the plugin, the text at the input offset, and b"s"
C12_Witness ==
  /\ Dispatched /\ call.o.invoked
  /\ CallDef.params = << T("CurrentPlugin"), T("str") >>
  /\ call.o.host_args = << PluginV, StrV(<< 55 >>), BytesV(<< 115 >>) >>

\* C13: a host function registered with an explicit wire signature is called
\* with the call context, the raw input Vals and output Vals and its bound
\* extra data, with no decode or encode step, and what it stores in the
\* output Vals is exactly what is written to the native output slots.
C13_PassThrough ==
  (call.done /\ call.target > 0 /\ ~HOST_FN_REGISTRY[call.target].inferred) =>
    /\ call.o.dispatched = call.target /\ call.o.invoked
    /\ call.o.host_args =
         << PluginV >> \o [i \in 1..Len(call.inputs) |-> CallInputVals[i].value]
                       \o CallBoundData
    /\ call.o.stage # "host" =>
         \A i \in 1..Len(call.outputs) :
           call.written[i] /\ call.outputs[i].v = call.o.outp[i].value.n

\* the last invocation was of a function with one return value of a kind
\* that lives in guest memory, and its encoder succeeded
EncodedToMemory ==
  /\ Returned /\ CallFn.inferred /\ call.o.stage = "ok"
  /\ Len(CallFn.emplace) = 1
  /\ CallFn.emplace[1] \in {"str", "bytes", "Json", "Pickle", "Codec"}

C15_FourWireTypes ==
  (call.done /\ call.target > 0) =>
    /\ call.o.stage # "convert"
    /\ (/\ call.o.stage \in {"ok", "write"}
        /\ \A i \in 1..Len(call.returns) :
             /\ call.o.outp[i].t = call.returns[i]
             /\ call.o.outp[i].value.k \in {"int", "float"})
       => /\ call.o.stage = "ok"
          /\ \A i \in 1..Len(call.returns) :
               call.written[i] /\ call.outputs[i].v = call.o.outp[i].value.n

\* how often the __del__ runs of the object x called the native free logged
\* in log
FreeCalls(log, x) == Cardinality({ i \in 1..Len(log) : log[i].self = x })

\* C16: once a Plugin's context manager has exited or its __del__ has run,
\* extism_plugin_free has been called for its native plugin and its
\* attribute plugin is -1; however often __del__ runs, the native plugin is
\* never freed a second time
C16_PluginFreedOnce ==
  \A p \in 1..Len(objs.plugins) :
    /\ FreeCalls(objs.plugin_free, p) <= 1
    /\ (objs.plugins[p].dels > 0 \/ objs.plugins[p].exited)
         => /\ FreeCalls(objs.plugin_free, p) = 1
            /\ objs.plugins[p].plugin = -1

\* C17: once CompiledPlugin.__del__ has run, the native compiled plugin has
\* been freed and pointer is -1; over any number of __del__ runs on one
\* CompiledPlugin, extism_compiled_plugin_free is called at most once
C17_CompiledFreedOnce ==
  \A c \in 1..Len(objs.compiled) :
    /\ FreeCalls(objs.compiled_free, c) <= 1
    /\ objs.compiled[c].dels > 0
         => /\ FreeCalls(objs.compiled_free, c) = 1
            /\ objs.compiled[c].pointer = -1

\* C18: freeing a Plugin built from raw plugin data also releases its
\* CompiledPlugin (compiled_plugin becomes None, written 0), while freeing a
\* Plugin built from a caller's CompiledPlugin leaves that CompiledPlugin
\* unfreed (pointer not -1) until its own __del__ runs
C18_OwnedCompiledReleased ==
  \A p \in 1..Len(objs.plugins) :
    LET self == objs.plugins[p]
    IN  (self.dels > 0 \/ self.exited)
          => IF self.raw
             THEN self.compiled_plugin = 0
             ELSE /\ self.compiled_plugin # 0
                  /\ objs.compiled[self.compiled_plugin].pointer = -1
                       => objs.compiled[self.compiled_plugin].dels > 0

\* a boundary invocation has just been made
BoundaryStep == call'.done /\ call' # call

C20_CallerListKept ==
  /\ \A d \in 1..Len(decorators) :
       lists[decorators[d].user_data].caller
         => lists[decorators[d].user_data].items = decorators[d].given
  /\ \A k \in 1..Len(HOST_FN_REGISTRY) :
       HOST_FN_REGISTRY[k].user_data = Append(reg.declared[k], ToBytes4(k - 1))

\* the caller is between lock.acquire() and the release that ends its call
InCritical(c) ==
  pool.callers[c].pc \in {"find", "activate", "return", "room", "create", "loop"}

\* C22: the number of instances created for the name never exceeds
\* max_instances, whatever the interleaving of the callers
C22_AtMostMaxInstances ==
  pool.added => Len(pool.instances) <= pool.max_instances

\* a caller tests len(entry) < max_instances, with every instance the limit
\* allows created, while another caller is past lock.acquire() as well
C22_Witness ==
  \E c1, c2 \in Callers :
    /\ c1 # c2 /\ pool.callers[c1].pc = "room" /\ InCritical(c2)
    /\ Len(pool.instances) = pool.max_instances

\* C21: an instance handed to one caller is handed to no other caller before
\* the first has released it: no two callers hold the same instance
C21_HandedToOne ==
  \A c1, c2 \in Callers :
    (c1 # c2 /\ pool.callers[c1].pc = "holding" /\ pool.callers[c2].pc = "holding")
      => pool.callers[c1].p # pool.callers[c2].p

\* C23: a call that runs into its timeout releases the name's Lock once, the
\* hold it acquired itself, and raises PoolError to its caller: its except
\* handler neither changes the Lock again (which would free another caller's
\* hold) nor replaces the PoolError
C23_TimeoutReleasesOnce ==
  [][ \A c \in Callers :
        /\ (pool.callers[c].pc = "loop" /\ pool'.callers[c].pc = "except")
             => /\ pool.lock.locked /\ pool.lock.owner = c
                /\ ~pool'.lock.locked
                /\ pool'.callers[c].exc = "PoolError"
        /\ (pool.callers[c].pc = "except" /\ pool.callers[c].exc = "PoolError"
              /\ pool'.callers[c].pc = "raised")
             => /\ pool'.lock = pool.lock
                /\ pool'.callers[c].exc = "PoolError" ]_vars

\* C24: with timeout None and every instance released in the end, every
\* call of async_get that has started is handed an instance in the end
C24_EventuallyHanded ==
  \A c \in Callers :
    (pool.callers[c].pc = "acquire") ~> (pool.callers[c].pc = "holding")

====
